---- MODULE Spec2Model ----
(***************************************************************************)
(* Rolling, date-based cross validation: utils/model_validation.           *)
(*                                                                         *)
(* CrossValidationPipeline.__init__ computes the fold boundaries with      *)
(* calculate_date_folds; fit_evaluate slices a data frame per fold, runs a *)
(* caller-supplied model on the slices and finishes in evaluate_results.   *)
(*                                                                         *)
(* A datetime is a record [year, month, day, hour]; every start of the     *)
(* model lies on a full hour, and every supported period is a whole number *)
(* of hours or of calendar months, so the finer fields never change.       *)
(***************************************************************************)
EXTENDS Integers, Sequences, FiniteSets, TLC

(* ----------------------------- bounds --------------------------------- *)

\* Largest fold count a caller passes.
MaxFolds == 4

\* Number of fit_evaluate calls made on one pipeline object.
MaxCalls == 2

(* ------------------- datetime (standard library) ---------------------- *)

DT(y, m, d, h) == [year |-> y, month |-> m, day |-> d, hour |-> h]

\* calendar.isleap
IsLeap(y) == (y % 4 = 0) /\ ((y % 100 # 0) \/ (y % 400 = 0))

\* calendar.monthrange(year, month)[1]
DaysInMonth(y, m) ==
    IF m = 2 THEN (IF IsLeap(y) THEN 29 ELSE 28)
    ELSE IF m \in {4, 6, 9, 11} THEN 30 ELSE 31

RECURSIVE DaysBeforeMonth(_, _)
\* datetime._days_before_month: days of the year before the first of month m
DaysBeforeMonth(y, m) ==
    IF m = 1 THEN 0 ELSE DaysBeforeMonth(y, m - 1) + DaysInMonth(y, m - 1)

\* datetime._days_before_year
DaysBeforeYear(y) ==
    (y - 1) * 365 + ((y - 1) \div 4) - ((y - 1) \div 100) + ((y - 1) \div 400)

\* datetime.toordinal: 0001-01-01 is day 1
ToOrdinal(y, m, d) == DaysBeforeYear(y) + DaysBeforeMonth(y, m) + d

RECURSIVE MonthOfYearDay(_, _, _)
\* the month holding 0-based day n of year y, searched from month m
MonthOfYearDay(y, n, m) ==
    IF n < DaysBeforeMonth(y, m) + DaysInMonth(y, m) THEN m
    ELSE MonthOfYearDay(y, n, m + 1)

\* datetime._ord2ymd: the inverse of ToOrdinal, by 400/100/4/1-year cycles
FromOrdinal(ord) ==
    LET n0   == ord - 1
        n400 == n0 \div 146097
        r400 == n0 % 146097
        n100 == r400 \div 36524
        r100 == r400 % 36524
        n4   == r100 \div 1461
        r4   == r100 % 1461
        n1   == r4 \div 365
        r1   == r4 % 365
        y    == n400 * 400 + 1 + n100 * 100 + n4 * 4 + n1
    IN  IF n1 = 4 \/ n100 = 4
        THEN [year |-> y - 1, month |-> 12, day |-> 31]
        ELSE LET m == MonthOfYearDay(y, r1, 1)
             IN  [year |-> y, month |-> m, day |-> r1 - DaysBeforeMonth(y, m) + 1]

\* hours since the start of day 1: the order and the difference of datetimes
Hours(t) == ToOrdinal(t.year, t.month, t.day) * 24 + t.hour

\* datetime.__add__(timedelta(hours = n))
AddHours(t, n) ==
    LET total == Hours(t) + n
        ymd   == FromOrdinal(total \div 24)
    IN  DT(ymd.year, ymd.month, ymd.day, total % 24)

(* --------------------- dateutil.relativedelta ------------------------- *)

\* The relative keywords of relativedelta that the pipeline's periods use.
Periods == {"hours", "days", "weeks", "months", "years"}

\* Variant of RelativedeltaAccepts: an unknown keyword is ignored.
RelativedeltaAcceptsAny(period) == TRUE

\* relativedelta(**{period: n}) raises TypeError for any other keyword.
RelativedeltaAccepts(period) == period \in Periods

\* relativedelta(**{period: n}), n >= 0, after relativedelta._fix has carried
\* hours over 23 into days and months over 11 into years.
Relativedelta(period, n) ==
    LET years  == IF period = "years" THEN n ELSE 0
        months == IF period = "months" THEN n ELSE 0
        days   == IF period = "days" THEN n
                  ELSE IF period = "weeks" THEN 7 * n ELSE 0
        hours  == IF period = "hours" THEN n ELSE 0
    IN  [years  |-> years + (months \div 12),
         months |-> months % 12,
         days   |-> days + (hours \div 24),
         hours  |-> hours % 24]

\* relativedelta.__radd__: the year and the month move first, the day is
\* clamped to the length of the month reached, then days and hours are added.
AddRelativedelta(t, rd) ==
    LET y0 == t.year + rd.years
        m0 == t.month + rd.months
        y  == IF m0 > 12 THEN y0 + 1 ELSE y0
        m  == IF m0 > 12 THEN m0 - 12 ELSE m0
        d  == IF DaysInMonth(y, m) < t.day THEN DaysInMonth(y, m) ELSE t.day
    IN  AddHours(DT(y, m, d, t.hour), 24 * rd.days + rd.hours)

(* ----------------------- calculate_date_folds ------------------------- *)

\* Variant of IsDatetime: a string is let through, as if it were parsed.
IsDatetimeOrString(start_date) == start_date.type \in {"datetime", "str"}

\* assert type(date_params.start_date) == datetime.datetime
IsDatetime(start_date) == start_date.type = "datetime"

RECURSIVE TrainEndChained(_, _, _)
\* Variant of TrainEnd: each train_end is one period after the previous one.
TrainEndChained(start, period, n) ==
    IF n = 0 THEN start
    ELSE AddRelativedelta(TrainEndChained(start, period, n - 1), Relativedelta(period, 1))

\* Variant of TrainEnd: the offset of the fold is left out.
TrainEndFixed(start, period, n) == start

\* train_end = start_date + relativedelta(**{period: fold_number})
TrainEnd(start, period, n) == AddRelativedelta(start, Relativedelta(period, n))

\* Variant of TestEnd: a month is taken to be thirty days.
TestEndThirtyDays(train_end, period) ==
    IF period = "months" THEN AddHours(train_end, 24 * 30)
    ELSE AddRelativedelta(train_end, Relativedelta(period, 1))

\* Variant of TestEnd: the test window is two periods wide.
TestEndTwo(train_end, period) == AddRelativedelta(train_end, Relativedelta(period, 2))

\* test_end = train_end + relativedelta(**{period: 1})
TestEnd(train_end, period) == AddRelativedelta(train_end, Relativedelta(period, 1))

\* Variant of FoldKey: the key is the 0-based loop variable.
FoldKeyZeroBased(n) == "fold_" \o ToString(n)

\* f"fold_{fold_number + 1}"
FoldKey(n) == "fold_" \o ToString(n + 1)

\* the entry stored for one iteration of the loop
Fold(start, period, n) ==
    [key       |-> FoldKey(n),
     train_end |-> TrainEnd(start, period, n),
     test_end  |-> TestEnd(TrainEnd(start, period, n), period)]

(* ------------------------------ inputs -------------------------------- *)

\* Start dates: the test's start, a month end, a leap day, a year end.
Starts ==
    {DT(2022, 1, 1, 8), DT(2022, 1, 31, 0), DT(2020, 2, 29, 12), DT(2021, 12, 31, 23)}

\* start_date as the caller passes it: a datetime, or a string that would
\* parse to one.
StartDates ==
    [type : {"datetime"}, value : Starts]
        \cup {[type |-> "str", value |-> DT(2022, 1, 1, 8)]}

\* period is a free-form string.
PeriodInputs == Periods \cup {"fortnights"}

FoldCounts == -1 .. MaxFolds

Row(i, t) == [id |-> i, index |-> t]

\* Rows of the data frames, by their datetime index.
AllRows ==
    {Row(1, DT(2021, 12, 31, 22)), Row(2, DT(2022, 1, 1, 8)),
     Row(3, DT(2022, 1, 1, 9)),    Row(4, DT(2022, 1, 31, 0)),
     Row(5, DT(2022, 2, 28, 0)),   Row(6, DT(2022, 3, 29, 0)),
     Row(7, DT(2021, 2, 28, 12))}

DataFrames == {AllRows, {r \in AllRows : r.id \in {1, 2, 6}}}

(* ------------------------------ state --------------------------------- *)

VARIABLES
    date_params,      \* the PipelineDateParams given to __init__
    pc,               \* "assert", "loop": in calculate_date_folds;
                      \* "idle": pipeline built, no call running;
                      \* "running": in fit_evaluate; "dead": __init__ raised
    fold_number,      \* loop variable of calculate_date_folds
    date_folds,       \* the dict calculate_date_folds builds, in insertion order
    date_parameters,  \* self.date_parameters
    results,          \* self.results, in insertion order
    raised,           \* the exception the last call let out, or "none"
    data_frame,       \* the data frame of the running fit_evaluate call
    position,         \* the loop of fit_evaluate: index into date_parameters
    calls,            \* fit_evaluate calls made so far
    trace             \* per iteration of the running call: the slices taken
                      \* and the calls made on the model

vars ==
    <<date_params, pc, fold_number, date_folds, date_parameters, results,
      raised, data_frame, position, calls, trace>>

Init ==
    /\ date_params \in [start_date : StartDates, period : PeriodInputs, folds : FoldCounts]
    /\ pc = "assert"
    /\ fold_number = 0
    /\ date_folds = << >>
    /\ date_parameters = << >>
    /\ results = << >>
    /\ raised = "none"
    /\ data_frame = {}
    /\ position = 0
    /\ calls = 0
    /\ trace = << >>

\* d[key] = value on a dict kept in insertion order: a new key goes last, an
\* existing key keeps its place.
DictSet(d, key, value) ==
    IF \E i \in 1 .. Len(d) : d[i].key = key
    THEN [i \in 1 .. Len(d) |-> IF d[i].key = key THEN value ELSE d[i]]
    ELSE Append(d, value)

Keys(d) == [i \in 1 .. Len(d) |-> d[i].key]

(* -------------------- __init__ / calculate_date_folds ------------------ *)

\* line 48: the type assertion, before the dict is created
AssertStart ==
    /\ pc = "assert"
    /\ IF IsDatetime(date_params.start_date)
       THEN pc' = "loop" /\ raised' = raised
       ELSE pc' = "dead" /\ raised' = "AssertionError"
    /\ UNCHANGED <<date_params, fold_number, date_folds, date_parameters, results,
                   data_frame, position, calls, trace>>

\* lines 52-61: one iteration of the loop over range(0, folds)
ComputeFold ==
    /\ pc = "loop"
    /\ fold_number < date_params.folds
    /\ IF RelativedeltaAccepts(date_params.period)
       THEN /\ date_folds' =
                 DictSet(date_folds, FoldKey(fold_number),
                         Fold(date_params.start_date.value, date_params.period, fold_number))
            /\ fold_number' = fold_number + 1
            /\ UNCHANGED <<pc, raised>>
       ELSE /\ pc' = "dead"
            /\ raised' = "TypeError"
            /\ UNCHANGED <<date_folds, fold_number>>
    /\ UNCHANGED <<date_params, date_parameters, results, data_frame, position,
                   calls, trace>>

\* line 63 and __init__ lines 34-35
ReturnFolds ==
    /\ pc = "loop"
    /\ fold_number >= date_params.folds
    /\ date_parameters' = date_folds
    /\ results' = << >>
    /\ pc' = "idle"
    /\ UNCHANGED <<date_params, fold_number, date_folds, raised, data_frame,
                   position, calls, trace>>

(* ---------------------------- fit_evaluate ---------------------------- *)

\* datetime.__lt__: field by field, the year first
Before(a, b) ==
    \/ a.year < b.year
    \/ a.year = b.year /\ a.month < b.month
    \/ a.year = b.year /\ a.month = b.month /\ a.day < b.day
    \/ a.year = b.year /\ a.month = b.month /\ a.day = b.day /\ a.hour < b.hour

\* Variant of TrainFrame: the row at train_end is trained on as well.
TrainFrameInclusive(df, fold) == {r \in df : ~Before(fold.train_end, r.index)}

\* lines 86-88: data_frame[data_frame.index < train_end]
TrainFrame(df, fold) == {r \in df : Before(r.index, fold.train_end)}

\* lines 89-92: data_frame[(index >= train_end) & (index < test_end)]
TestFrame(df, fold) ==
    {r \in df : ~Before(r.index, fold.train_end) /\ Before(r.index, fold.test_end)}

\* The caller's model: model_instance(model_parameters), train and predict
\* may each raise; "ok" is an iteration in which none does.
ModelOutcomes == {"ok", "instantiate", "train", "predict"}

\* model.predict(test_frame): one prediction per row of the slice
Predict(frame) == {r.id : r \in frame}

\* Variant of AfterFold: the exception is swallowed and the loop goes on.
AfterFoldSwallow(outcome) == "running"

\* An exception of the model leaves fit_evaluate: nothing catches it.
AfterFold(outcome) == IF outcome = "ok" THEN "running" ELSE "idle"

\* a call of fit_evaluate on a built pipeline
CallFitEvaluate(df) ==
    /\ pc = "idle"
    /\ calls < MaxCalls
    /\ data_frame' = df
    /\ position' = 1
    /\ trace' = << >>
    /\ raised' = "none"
    /\ calls' = calls + 1
    /\ pc' = "running"
    /\ UNCHANGED <<date_params, fold_number, date_folds, date_parameters, results>>

\* lines 85-101: one iteration of the loop over self.date_parameters.keys()
RunFold(outcome) ==
    /\ pc = "running"
    /\ position <= Len(date_parameters)
    /\ LET fold        == date_parameters[position]
           train_frame == TrainFrame(data_frame, fold)
           test_frame  == TestFrame(data_frame, fold)
       IN  /\ trace' = Append(trace, [fold        |-> fold.key,
                                      model       |-> Len(trace) + 1,
                                      train_frame |-> train_frame,
                                      test_frame  |-> test_frame,
                                      outcome     |-> outcome])
           /\ results' =
                IF outcome = "ok"
                THEN DictSet(results, fold.key,
                             [key |-> fold.key, test_predictions |-> Predict(test_frame)])
                ELSE results
    /\ pc' = AfterFold(outcome)
    /\ position' = IF outcome = "ok" THEN position + 1 ELSE position
    /\ raised' = IF outcome = "ok" THEN raised ELSE "ModelError"
    /\ UNCHANGED <<date_params, fold_number, date_folds, date_parameters,
                   data_frame, calls>>

\* evaluate_results, lines 114-121. pd.concat(self.results) raises ValueError
\* for an empty dict and TypeError for a dict whose values are dicts and no
\* frames; line 117 subscripts dict.values() and reads the key "test_start",
\* which no fold has. No input reaches the return of line 121.
EvaluateResultsRaises(res) == IF Len(res) = 0 THEN "ValueError" ELSE "TypeError"

\* line 103: the loop is over, evaluate_results runs
EvaluateResults ==
    /\ pc = "running"
    /\ position > Len(date_parameters)
    /\ raised' = EvaluateResultsRaises(results)
    /\ pc' = "idle"
    /\ UNCHANGED <<date_params, fold_number, date_folds, date_parameters, results,
                   data_frame, position, calls, trace>>

Next ==
    \/ AssertStart
    \/ ComputeFold
    \/ ReturnFolds
    \/ \E df \in DataFrames : CallFitEvaluate(df)
    \/ \E outcome \in ModelOutcomes : RunFold(outcome)
    \/ EvaluateResults

Spec == Init /\ [][Next]_vars

TypeOK ==
    /\ pc \in {"assert", "loop", "idle", "running", "dead"}
    /\ fold_number \in 0 .. MaxFolds
    /\ Len(date_folds) <= MaxFolds
    /\ position \in 0 .. MaxFolds + 1
    /\ calls \in 0 .. MaxCalls
    /\ raised \in {"none", "AssertionError", "TypeError", "ValueError", "ModelError"}

(* ------------------------- stated properties -------------------------- *)

Start == date_params.start_date.value

Period == date_params.period

\* the caller passed a datetime.datetime, no string
StartIsDatetime == date_params.start_date.type = "datetime"

Built == pc \in {"idle", "running"}

MonthIndex(t) == 12 * t.year + (t.month - 1)

Min(a, b) == IF a < b THEN a ELSE b

\* b is a advanced by n period units on the calendar: a fixed number of
\* hours for hours, days and weeks; for months and years the month n (12 n)
\* months later, the same day of the month or the last day of a shorter
\* month, and the same hour.
Advanced(a, b, period, n) ==
    CASE period = "hours"  -> Hours(b) - Hours(a) = n
      [] period = "days"   -> Hours(b) - Hours(a) = 24 * n
      [] period = "weeks"  -> Hours(b) - Hours(a) = 168 * n
      [] period = "months" ->
             /\ MonthIndex(b) = MonthIndex(a) + n
             /\ b.day = Min(a.day, DaysInMonth(b.year, b.month))
             /\ b.hour = a.hour
      [] period = "years"  ->
             /\ MonthIndex(b) = MonthIndex(a) + 12 * n
             /\ b.day = Min(a.day, DaysInMonth(b.year, b.month))
             /\ b.hour = a.hour
      [] OTHER -> FALSE

\* C1: every fold has train_end <= test_end, and test_end is train_end
\* advanced by exactly one period unit on the calendar (for months: the next
\* month, clamped to its last day).
C1_OnePeriodWide ==
    \A i \in 1 .. Len(date_folds) :
        /\ Hours(date_folds[i].train_end) <= Hours(date_folds[i].test_end)
        /\ Advanced(date_folds[i].train_end, date_folds[i].test_end, Period, 1)

\* a fold Jan 31 -> Feb 28 has been returned
C1_Witness ==
    /\ pc = "idle"
    /\ Period = "months"
    /\ \E i \in 1 .. Len(date_parameters) :
           /\ date_parameters[i].train_end.day = 31
           /\ date_parameters[i].test_end.day = 28

\* C2: the FoldSet returned for fold count N has exactly N entries, the i-th
\* keyed fold_i, when N >= 1, and is empty when N <= 0; with a datetime start
\* the call does not raise when the period is supported or N <= 0.
C2_FoldCount ==
    /\ (StartIsDatetime
            /\ (Period \in Periods \/ date_params.folds <= 0)) => pc # "dead"
    /\ Built =>
          /\ Len(date_parameters) = (IF date_params.folds >= 1 THEN date_params.folds ELSE 0)
          /\ \A i \in 1 .. Len(date_parameters) :
                 date_parameters[i].key = "fold_" \o ToString(i)

C2_Witness ==
    /\ pc = "idle"
    /\ date_params.folds >= 3
    /\ Len(date_parameters) = date_params.folds
    /\ date_parameters[3].key = "fold_3"

\* C3: fold k's train_end is the start advanced by k-1 period units, counted
\* from the start; train_end and test_end strictly increase with k.
C3_TrainEndFromStart ==
    /\ \A k \in 1 .. Len(date_folds) :
           Advanced(Start, date_folds[k].train_end, Period, k - 1)
    /\ \A j, k \in 1 .. Len(date_folds) :
           j < k =>
               /\ Hours(date_folds[j].train_end) < Hours(date_folds[k].train_end)
               /\ Hours(date_folds[j].test_end) < Hours(date_folds[k].test_end)

\* from Jan 31 by months: fold 2 is clamped to Feb 28, fold 3 is back on Mar 31
C3_Witness ==
    /\ pc = "idle"
    /\ Period = "months"
    /\ Start.day = 31
    /\ Len(date_parameters) >= 3
    /\ date_parameters[2].train_end.day = 28
    /\ date_parameters[3].train_end.day = 31

C5_AsStated ==
    (Period \notin Periods /\ StartIsDatetime) =>
        /\ ~Built
        /\ pc = "dead" => raised = "TypeError"

\* C5 amended: with a datetime start and folds >= 1 an unrecognised period
\* fails in the first iteration with TypeError, no fold is computed and no
\* FoldSet is returned; with folds <= 0 the loop body never runs and an empty
\* FoldSet is returned; with a start that is no datetime the assertion fails
\* first.
C5_UnknownPeriod ==
    (Period \notin Periods) =>
        /\ (StartIsDatetime /\ date_params.folds >= 1) =>
               /\ ~Built
               /\ date_folds = << >>
               /\ pc = "dead" => raised = "TypeError"
        /\ (StartIsDatetime /\ date_params.folds <= 0) =>
               /\ pc # "dead"
               /\ date_parameters = << >>
        /\ (~StartIsDatetime /\ pc = "dead") =>
               raised = "AssertionError"

C5_Witness ==
    /\ Period \notin Periods
    /\ date_params.folds >= 1
    /\ pc = "dead"
    /\ raised = "TypeError"

\* C6: the test windows [train_end, test_end) of two folds of one FoldSet do
\* not overlap: an earlier fold's test_end is at or before a later fold's
\* train_end, and no row of a data frame is in the test slice of two folds.
C6_TestWindowsDisjoint ==
    /\ \A j, k \in 1 .. Len(date_folds) :
           j < k => Hours(date_folds[j].test_end) <= Hours(date_folds[k].train_end)
    /\ \A j, k \in 1 .. Len(trace) :
           j # k => trace[j].test_frame \cap trace[k].test_frame = {}

\* two folds of one run have each had rows to predict
C6_Witness ==
    /\ Len(trace) >= 2
    /\ trace[1].test_frame # {}
    /\ trace[2].test_frame # {}

\* the rows of the running call before t, and those from t up to u
RowsBefore(t) == {r \in data_frame : Hours(r.index) < Hours(t)}

RowsWithin(t, u) ==
    {r \in data_frame : Hours(t) <= Hours(r.index) /\ Hours(r.index) < Hours(u)}

\* C7: fit_evaluate takes the folds in increasing index order; for each it
\* trains a fresh model on exactly the rows before train_end and predicts
\* exactly the rows from train_end up to test_end (disjoint slices, every
\* training row before every test row) and stores the predictions under the
\* fold's key; when the loop is over, results has the keys of the FoldSet.
C7_RunnerSlices ==
    /\ \A i \in 1 .. Len(trace) :
           /\ i <= Len(date_parameters)
           /\ trace[i].fold = date_parameters[i].key
           /\ trace[i].model = i
           /\ trace[i].train_frame = RowsBefore(date_parameters[i].train_end)
           /\ trace[i].test_frame =
                  RowsWithin(date_parameters[i].train_end, date_parameters[i].test_end)
           /\ trace[i].train_frame \cap trace[i].test_frame = {}
           /\ \A a \in trace[i].train_frame : \A b \in trace[i].test_frame :
                  Hours(a.index) < Hours(b.index)
           /\ trace[i].outcome = "ok" =>
                  \E n \in 1 .. Len(results) :
                      /\ results[n].key = trace[i].fold
                      /\ results[n].test_predictions = {r.id : r \in trace[i].test_frame}
    /\ (pc = "running" /\ position > Len(date_parameters)) =>
           /\ Keys(results) = Keys(date_parameters)
           /\ Len(trace) = Len(date_parameters)

\* the loop is over after two or more folds, one of which had rows on both
\* sides of its train_end
C7_Witness ==
    /\ pc = "running"
    /\ position > Len(date_parameters)
    /\ Len(date_parameters) >= 2
    /\ \E i \in 1 .. Len(trace) :
           trace[i].train_frame # {} /\ trace[i].test_frame # {}

\* the call ended in an exception of the model's train or predict
ModelFailed ==
    /\ pc = "idle"
    /\ raised = "ModelError"
    /\ Len(trace) >= 1
    /\ trace[Len(trace)].outcome \in {"train", "predict"}

\* C8 as stated: when train or predict fails on fold k the failure leaves
\* fit_evaluate at fold k, no model is made for a later fold, evaluation is
\* not run, and results has entries for exactly the folds 1 .. k-1.
C8_AsStated ==
    ModelFailed =>
        /\ \A i \in 1 .. Len(trace) - 1 : trace[i].outcome = "ok"
        /\ position = Len(trace)
        /\ Keys(results) = SubSeq(Keys(date_parameters), 1, Len(trace) - 1)

\* C8 amended: a failure of the model on fold k ends the call there with the
\* model's exception: the loop stands at k, every earlier fold succeeded and
\* has its predictions of this call in results, and nothing ran after it. In
\* the first call on a pipeline results has exactly the keys of folds
\* 1 .. k-1; entries written by earlier calls stay in results.
C8_FailureStopsRun ==
    /\ raised = "ModelError" => pc = "idle"
    /\ ModelFailed =>
           /\ \A i \in 1 .. Len(trace) - 1 : trace[i].outcome = "ok"
           /\ position = Len(trace)
           /\ SubSeq(Keys(results), 1, Len(trace) - 1)
                  = SubSeq(Keys(date_parameters), 1, Len(trace) - 1)
           /\ \A i \in 1 .. Len(trace) - 1 :
                  results[i].test_predictions = {r.id : r \in trace[i].test_frame}
           /\ calls = 1 =>
                  Keys(results) = SubSeq(Keys(date_parameters), 1, Len(trace) - 1)

\* the first call failed on its third fold or later
C8_Witness ==
    /\ ModelFailed
    /\ calls = 1
    /\ Len(trace) >= 3
    /\ Len(results) = Len(trace) - 1

\* every row from the first train_end on has a prediction in results
PredictionsCoverRows ==
    /\ Len(date_parameters) >= 1
    /\ {r.id : r \in {q \in data_frame :
                         Hours(q.index) >= Hours(date_parameters[1].train_end)}}
           = UNION {results[n].test_predictions : n \in 1 .. Len(results)}

\* C9: when one fold or more has run, every call on the model succeeded and
\* the predictions cover the rows asked for, the evaluation step that ends
\* fit_evaluate completes normally.
C9_EvaluationCompletes ==
    (/\ pc = "idle"
     /\ calls >= 1
     /\ Len(date_parameters) >= 1
     /\ position > Len(date_parameters)
     /\ \A i \in 1 .. Len(trace) : trace[i].outcome = "ok"
     /\ PredictionsCoverRows)
        => raised = "none"

====
